---- MODULE Spec2Model ----
(***************************************************************************)
(* Model of src/simulador.py: the MemoryManager ledger, the Scheduler      *)
(* (queue, running dict, admission loop of run/_start_if_possible) and the *)
(* workload threads (_run_process).                                        *)
(*                                                                         *)
(* Granularity.  The main thread and every workload thread advance one     *)
(* statement group at a time; a group is cut wherever another thread can   *)
(* observe or change what the group touches.  The with-blocks of           *)
(* MemoryManager only touch used_mb and are taken as one step each in the  *)
(* scheduler specification; SpecMM replays them instruction by instruction *)
(* with several concurrent callers.                                        *)
(*                                                                         *)
(* Not modelled: printing (_fmt_state, ts), the threads dict (written at   *)
(* line 124, never read), the local started_any (returned at line 131,     *)
(* ignored by run) and the _stop flag (never set).                         *)
(***************************************************************************)
EXTENDS Integers, Sequences, FiniteSets, TLC

\* ---------------------------------------------------------------- bounds
MaxProcs == 3
FairProcs == 2
TotalMb == 2
MaxPid == 1
NumCallers == 2

\* ---------------------------------------------------------------- inputs
\* name as stored at line 94: supplied by the caller or the generated
\* placeholder of line 93.
Names == {"A"}
\* duration_s: the sleep of line 134 is a step of unknown length, the value
\* only takes part in the dataclass equality.
Durations == {"d"}
\* mem_mb: the non-negative requirements, up to one above the capacity.
Mems == 0 .. (TotalMb + 1)
\* pid argument of add_process: NoPid stands for None.
NoPid == 0
PidArgs == {NoPid} \cup (1 .. MaxPid)
Callers == 1 .. NumCallers

VARIABLES
    procs,      \* every Process object ever constructed, by creation order
    queue,      \* Scheduler.queue: sequence of object indices
    running,    \* Scheduler.running: function pid -> object index
    used_mb,    \* MemoryManager.used_mb
    next_pid,   \* Scheduler.next_pid
    lock,       \* Scheduler.lock is held across statements by the main thread
    pc,         \* position of the main thread
    i,          \* local i of _start_if_possible (0-based)
    p,          \* local p of _start_if_possible (object index, 0 before any)
    thr,        \* every workload thread ever started: [obj, pc]
    pass_queue, \* history: the queue as the current pass found it (line 102)
    tried,      \* history: the workloads fetched so far in the current pass
    mm_lock,    \* MemoryManager.lock: 0 free, else the caller holding it
    mm_pc,      \* position of each ledger caller
    mm_amt,     \* argument of the call each ledger caller is in
    held        \* amount each ledger caller has reserved and not released

vars == <<procs, queue, running, used_mb, next_pid, lock, pc, i, p, thr,
          pass_queue, tried, mm_lock, mm_pc, mm_amt, held>>
histVars == <<pass_queue, tried>>
schedVars == <<procs, queue, running, next_pid, lock, pc, i, p, thr, histVars>>
mmVars == <<mm_lock, mm_pc, mm_amt, held>>

\* ---------------------------------------------------------------- helpers
Max(a, b) == IF a >= b THEN a ELSE b

\* Process(pid, name, mem_mb, duration_s): state WAITING, no timestamps.
\* t_start and t_end are 0 for None and 1 for a reading of time.time().
NewProcess(pid, name, mem, dur) ==
    [pid |-> pid, name |-> name, mem_mb |-> mem, duration_s |-> dur,
     state |-> "WAITING", t_start |-> 0, t_end |-> 0]

\* The __eq__ generated by @dataclass compares all seven fields.  Two clock
\* readings taken at different moments differ, so distinct objects that
\* carry a timestamp are unequal.
ProcEq(a, b) ==
    \/ a = b
    \/ /\ procs[a] = procs[b]
       /\ procs[a].t_start = 0
       /\ procs[a].t_end = 0

\* deque.remove(x): drops the first element that compares equal to x.
FirstEq(q, a) == CHOOSE k \in 1 .. Len(q) :
                    /\ ProcEq(q[k], a)
                    /\ \A j \in 1 .. (k - 1) : ~ProcEq(q[j], a)
DequeRemove(q, a) ==
    LET k == FirstEq(q, a)
    IN  SubSeq(q, 1, k - 1) \o SubSeq(q, k + 1, Len(q))

FitsAlways(used, mem) == TRUE
FitsStrictly(used, mem) == used + mem < TotalMb

\* MemoryManager.try_alloc, the test of line 53.
Fits(used, mem) == used + mem <= TotalMb

FreeNothing(used, mem) == used
FreeAll(used, mem) == 0
FreeTwice(used, mem) == Max(0, used - 2 * mem)

ExceedsNever(mem) == FALSE

\* line 109: the workload can never run.
Unrunnable(mem) == mem > TotalMb

SkipRest(idx, q) == Len(q)

\* line 129: after a failed reservation the pass moves to the next index.
NextIndex(idx, q) == idx + 1

\* MemoryManager.free, line 60.
FreeTo(used, mem) == Max(0, used - mem)

\* dict store and dict.pop(key, None).
DictPut(d, k, v) == [x \in (DOMAIN d) \cup {k} |-> IF x = k THEN v ELSE d[x]]
DictPop(d, k) == [x \in (DOMAIN d) \ {k} |-> d[x]]

\* `with self.lock` of the Scheduler can be entered.
LockFree == ~lock

MMLockIgnored == TRUE

\* `with self.lock` of the MemoryManager can be entered.
MMLockFree == mm_lock = 0

QueueEmptyOnly == Len(queue) = 0

\* nothing_left of line 155.
NothingLeft == (DOMAIN running = {}) /\ (Len(queue) = 0)

\* ---------------------------------------------------------------- Init
Init ==
    /\ procs = <<>>
    /\ queue = <<>>
    /\ running = <<>>
    /\ used_mb = 0
    /\ next_pid = 1
    /\ lock = FALSE
    /\ pc = "intake"
    /\ i = 0
    /\ p = 0
    /\ thr = <<>>
    /\ pass_queue = <<>>
    /\ tried = <<>>
    /\ mm_lock = 0
    /\ mm_pc = [c \in Callers |-> "idle"]
    /\ mm_amt = [c \in Callers |-> 0]
    /\ held = [c \in Callers |-> 0]

\* ---------------------------------------------------------------- main thread
\* add_process, called by main() before run(); cap bounds the number of calls.
AddProcess(cap, name, mem, dur, pidArg) ==
    /\ pc = "intake"
    /\ Len(procs) < cap
    /\ LET pid == IF pidArg = NoPid THEN next_pid ELSE pidArg
       IN  /\ procs' = Append(procs, NewProcess(pid, name, mem, dur))
           /\ queue' = Append(queue, Len(procs) + 1)
    /\ next_pid' = IF pidArg = NoPid THEN next_pid + 1 ELSE next_pid
    /\ UNCHANGED <<running, used_mb, lock, pc, i, p, thr, histVars, mmVars>>

\* main() calls sch.run().
StartRun ==
    /\ pc = "intake"
    /\ pc' = "pass"
    /\ UNCHANGED <<procs, queue, running, used_mb, next_pid, lock, i, p, thr, histVars, mmVars>>

\* run, line 153, and the entry of _start_if_possible, lines 102-103.
BeginPass ==
    /\ pc = "pass"
    /\ i' = 0
    /\ pc' = "while"
    /\ pass_queue' = queue
    /\ tried' = <<>>
    /\ UNCHANGED <<procs, queue, running, used_mb, next_pid, lock, p, thr, mmVars>>

\* lines 104-106: the loop test holds, p = queue[i].
Fetch ==
    /\ pc = "while"
    /\ i < Len(queue)
    /\ LockFree
    /\ p' = queue[i + 1]
    /\ pc' = "test"
    /\ tried' = Append(tried, queue[i + 1])
    /\ UNCHANGED <<procs, queue, running, used_mb, next_pid, lock, i, thr, pass_queue, mmVars>>

\* line 104 fails, line 131 returns to run.
EndPass ==
    /\ pc = "while"
    /\ i >= Len(queue)
    /\ pc' = "check"
    /\ UNCHANGED <<procs, queue, running, used_mb, next_pid, lock, i, p, thr, histVars, mmVars>>

\* lines 109-113.
Discard ==
    /\ pc = "test"
    /\ Unrunnable(procs[p].mem_mb)
    /\ LockFree
    /\ queue' = DequeRemove(queue, p)
    /\ pc' = "while"
    /\ UNCHANGED <<procs, running, used_mb, next_pid, lock, i, p, thr, histVars, mmVars>>

\* line 116, try_alloc returns True.
AllocOk ==
    /\ pc = "test"
    /\ ~Unrunnable(procs[p].mem_mb)
    /\ Fits(used_mb, procs[p].mem_mb)
    /\ used_mb' = used_mb + procs[p].mem_mb
    /\ pc' = "remove"
    /\ UNCHANGED <<procs, queue, running, next_pid, lock, i, p, thr, histVars, mmVars>>

\* line 116, try_alloc returns False; line 129.
AllocFail ==
    /\ pc = "test"
    /\ ~Unrunnable(procs[p].mem_mb)
    /\ ~Fits(used_mb, procs[p].mem_mb)
    /\ i' = NextIndex(i, queue)
    /\ pc' = "while"
    /\ UNCHANGED <<procs, queue, running, used_mb, next_pid, lock, p, thr, histVars, mmVars>>

\* lines 117-118: the lock is taken and p is removed from the queue.
Remove ==
    /\ pc = "remove"
    /\ LockFree
    /\ lock' = TRUE
    /\ queue' = DequeRemove(queue, p)
    /\ pc' = "setrun"
    /\ UNCHANGED <<procs, running, used_mb, next_pid, i, p, thr, histVars, mmVars>>

\* lines 119-120.
SetRunning ==
    /\ pc = "setrun"
    /\ procs' = [procs EXCEPT ![p].state = "RUNNING", ![p].t_start = 1]
    /\ pc' = "register"
    /\ UNCHANGED <<queue, running, used_mb, next_pid, lock, i, p, thr, histVars, mmVars>>

\* line 121 and the end of the with-block.
Register ==
    /\ pc = "register"
    /\ running' = DictPut(running, procs[p].pid, p)
    /\ lock' = FALSE
    /\ pc' = "launch"
    /\ UNCHANGED <<procs, queue, used_mb, next_pid, i, p, thr, histVars, mmVars>>

\* lines 123-127: the thread is created and started.
Launch ==
    /\ pc = "launch"
    /\ thr' = Append(thr, [obj |-> p, pc |-> "sleep"])
    /\ pc' = "while"
    /\ UNCHANGED <<procs, queue, running, used_mb, next_pid, lock, i, p, histVars, mmVars>>

\* lines 154-157: both collections are empty, run leaves the loop.
Drained ==
    /\ pc = "check"
    /\ LockFree
    /\ NothingLeft
    /\ pc' = "done"
    /\ UNCHANGED <<procs, queue, running, used_mb, next_pid, lock, i, p, thr, histVars, mmVars>>

\* lines 154-158: something is left, run sleeps and loops.
Poll ==
    /\ pc = "check"
    /\ LockFree
    /\ ~NothingLeft
    /\ pc' = "pass"
    /\ UNCHANGED <<procs, queue, running, used_mb, next_pid, lock, i, p, thr, histVars, mmVars>>

\* line 226 returns and main() ends: the interpreter exits without waiting
\* for the daemon threads of line 123.
Exit ==
    /\ pc = "done"
    /\ pc' = "exited"
    /\ UNCHANGED <<procs, queue, running, used_mb, next_pid, lock, i, p, thr, histVars, mmVars>>

\* ---------------------------------------------------------------- workload threads
\* daemon=True, line 123: a workload thread runs only while the process lives.
ProcessAlive == pc # "exited"

\* lines 134-136: the sleep ends, the state is set.
Finish(t) ==
    /\ ProcessAlive
    /\ thr[t].pc = "sleep"
    /\ procs' = [procs EXCEPT ![thr[t].obj].state = "FINISHED",
                              ![thr[t].obj].t_end = 1]
    /\ thr' = [thr EXCEPT ![t].pc = "free"]
    /\ UNCHANGED <<queue, running, used_mb, next_pid, lock, pc, i, p, histVars, mmVars>>

\* line 137.
Free(t) ==
    /\ ProcessAlive
    /\ thr[t].pc = "free"
    /\ used_mb' = FreeTo(used_mb, procs[thr[t].obj].mem_mb)
    /\ thr' = [thr EXCEPT ![t].pc = "pop"]
    /\ UNCHANGED <<procs, queue, running, next_pid, lock, pc, i, p, histVars, mmVars>>

\* lines 138-139.
Pop(t) ==
    /\ ProcessAlive
    /\ thr[t].pc = "pop"
    /\ LockFree
    /\ running' = DictPop(running, procs[thr[t].obj].pid)
    /\ thr' = [thr EXCEPT ![t].pc = "end"]
    /\ UNCHANGED <<procs, queue, used_mb, next_pid, lock, pc, i, p, histVars, mmVars>>

MainStep ==
    \/ StartRun
    \/ BeginPass
    \/ Fetch
    \/ EndPass
    \/ Discard
    \/ AllocOk
    \/ AllocFail
    \/ Remove
    \/ SetRunning
    \/ Register
    \/ Launch
    \/ Drained
    \/ Poll
    \/ Exit

Intake(cap) ==
    \E name \in Names, mem \in Mems, dur \in Durations, pidArg \in PidArgs :
        AddProcess(cap, name, mem, dur, pidArg)

Next ==
    \/ Intake(MaxProcs)
    \/ MainStep
    \/ \E t \in 1 .. Len(thr) : Finish(t)
    \/ \E t \in 1 .. Len(thr) : Free(t)
    \/ \E t \in 1 .. Len(thr) : Pop(t)

Spec == Init /\ [][Next]_vars

\* ---------------------------------------------------------------- ledger callers
\* MemoryManager.try_alloc and MemoryManager.free, one instruction group per
\* step, called by NumCallers concurrent threads.  A caller releases only
\* what it has reserved.
CallTryAlloc(c, a) ==
    /\ mm_pc[c] = "idle"
    /\ mm_pc' = [mm_pc EXCEPT ![c] = "ta_enter"]
    /\ mm_amt' = [mm_amt EXCEPT ![c] = a]
    /\ UNCHANGED <<schedVars, used_mb, mm_lock, held>>

\* line 52: with self.lock
TaAcquire(c) ==
    /\ mm_pc[c] = "ta_enter"
    /\ MMLockFree
    /\ mm_lock' = c
    /\ mm_pc' = [mm_pc EXCEPT ![c] = "ta_test"]
    /\ UNCHANGED <<schedVars, used_mb, mm_amt, held>>

\* line 53
TaTest(c) ==
    /\ mm_pc[c] = "ta_test"
    /\ mm_pc' = [mm_pc EXCEPT ![c] = IF Fits(used_mb, mm_amt[c])
                                      THEN "ta_add" ELSE "ta_false"]
    /\ UNCHANGED <<schedVars, used_mb, mm_lock, mm_amt, held>>

\* lines 54-55: used_mb grows, True is returned and the lock released
TaAdd(c) ==
    /\ mm_pc[c] = "ta_add"
    /\ used_mb' = used_mb + mm_amt[c]
    /\ held' = [held EXCEPT ![c] = @ + mm_amt[c]]
    /\ mm_lock' = 0
    /\ mm_pc' = [mm_pc EXCEPT ![c] = "idle"]
    /\ UNCHANGED <<schedVars, mm_amt>>

\* line 56: False is returned and the lock released
TaFalse(c) ==
    /\ mm_pc[c] = "ta_false"
    /\ mm_lock' = 0
    /\ mm_pc' = [mm_pc EXCEPT ![c] = "idle"]
    /\ UNCHANGED <<schedVars, used_mb, mm_amt, held>>

CallFree(c, a) ==
    /\ mm_pc[c] = "idle"
    /\ a >= 1
    /\ a <= held[c]
    /\ mm_pc' = [mm_pc EXCEPT ![c] = "fr_enter"]
    /\ mm_amt' = [mm_amt EXCEPT ![c] = a]
    /\ UNCHANGED <<schedVars, used_mb, mm_lock, held>>

\* line 59: with self.lock
FrAcquire(c) ==
    /\ mm_pc[c] = "fr_enter"
    /\ MMLockFree
    /\ mm_lock' = c
    /\ mm_pc' = [mm_pc EXCEPT ![c] = "fr_set"]
    /\ UNCHANGED <<schedVars, used_mb, mm_amt, held>>

\* line 60 and the release of the lock
FrSet(c) ==
    /\ mm_pc[c] = "fr_set"
    /\ used_mb' = FreeTo(used_mb, mm_amt[c])
    /\ held' = [held EXCEPT ![c] = @ - mm_amt[c]]
    /\ mm_lock' = 0
    /\ mm_pc' = [mm_pc EXCEPT ![c] = "idle"]
    /\ UNCHANGED <<schedVars, mm_amt>>

NextMM ==
    \/ \E c \in Callers, a \in Mems : CallTryAlloc(c, a)
    \/ \E c \in Callers : TaAcquire(c)
    \/ \E c \in Callers : TaTest(c)
    \/ \E c \in Callers : TaAdd(c)
    \/ \E c \in Callers : TaFalse(c)
    \/ \E c \in Callers, a \in Mems : CallFree(c, a)
    \/ \E c \in Callers : FrAcquire(c)
    \/ \E c \in Callers : FrSet(c)

SpecMM == Init /\ [][NextMM]_vars

\* ---------------------------------------------------------------- fairness
\* The main thread runs main() to its end and every started thread is
\* scheduled: its sleep is finite and the locks it waits for are released.
ThreadStep(t) == t \in 1 .. Len(thr) /\ (Finish(t) \/ Free(t) \/ Pop(t))

Fairness ==
    /\ WF_vars(MainStep)
    /\ \A t \in 1 .. FairProcs : WF_vars(ThreadStep(t))

\* The scheduler fed with at most FairProcs workloads, under fair scheduling.
NextFair ==
    \/ Intake(FairProcs)
    \/ MainStep
    \/ \E t \in 1 .. Len(thr) : Finish(t)
    \/ \E t \in 1 .. Len(thr) : Free(t)
    \/ \E t \in 1 .. Len(thr) : Pop(t)

FairSpec == Init /\ [][NextFair]_vars /\ Fairness

\* ---------------------------------------------------------------- derived sets
Objs == 1 .. Len(procs)
Threads == 1 .. Len(thr)
QueuedObjs == {queue[k] : k \in 1 .. Len(queue)}
RunningObjs == {running[k] : k \in DOMAIN running}
ThreadsOf(o) == {t \in Threads : thr[t].obj = o}

RECURSIVE SumMem(_)
SumMem(S) == IF S = {} THEN 0
             ELSE LET o == CHOOSE x \in S : TRUE
                  IN  procs[o].mem_mb + SumMem(S \ {o})

\* the main thread is between a successful try_alloc and the RUNNING store
Reserving == pc \in {"remove", "setrun"}
\* a workload thread is between the FINISHED store and free
Releasing == \E t \in Threads : thr[t].pc = "free"

\* run() has returned (line 226 is behind the main thread)
RunReturned == pc \in {"done", "exited"}

\* ---------------------------------------------------------------- C1
\* C1: in every reachable state 0 <= used_mb <= total_mb, so a queued
\* workload that does not fit in the free memory stays queued until memory
\* has been released.
C1_UsedWithinTotal == used_mb >= 0 /\ used_mb <= TotalMb

\* Scenario C: one workload holds the whole memory, another one that needs
\* memory has been tried in this pass and is still queued and WAITING.
C1_Witness ==
    /\ used_mb = TotalMb
    /\ pc = "while"
    /\ i >= 1
    /\ \E k \in 1 .. Len(queue) :
          /\ k <= i
          /\ procs[queue[k]].state = "WAITING"
          /\ procs[queue[k]].mem_mb > 0
          /\ procs[queue[k]].mem_mb <= TotalMb
    /\ \E t \in Threads : thr[t].pc = "sleep" /\ procs[thr[t].obj].mem_mb = TotalMb

\* ---------------------------------------------------------------- C2
\* C2: whenever no reservation and no release is in flight, used_mb is the
\* sum of mem_mb over the workloads whose state is RUNNING.
C2_UsedIsSumOfRunning ==
    (~Reserving /\ ~Releasing) =>
        used_mb = SumMem({o \in Objs : procs[o].state = "RUNNING"})

\* ---------------------------------------------------------------- C4
\* C4: no identifier is in the queue and in the running dict at once, and no
\* workload is in both.
C4_QueueRunningDisjoint ==
    /\ \A o \in QueuedObjs : procs[o].pid \notin DOMAIN running
    /\ QueuedObjs \cap RunningObjs = {}

\* ---------------------------------------------------------------- C5
\* C5: a workload is admitted at most once: at most one thread is ever
\* started for it.
C5_AdmittedAtMostOnce == \A o \in Objs : Cardinality(ThreadsOf(o)) <= 1

\* ---------------------------------------------------------------- C3
RECURSIVE SumHeld(_)
SumHeld(S) == IF S = {} THEN 0
              ELSE LET c == CHOOSE x \in S : TRUE
                   IN  held[c] + SumHeld(S \ {c})

\* C3: try_alloc is atomic with respect to try_alloc and free: the amounts
\* granted to concurrent callers never add up to more than total_mb (of two
\* concurrent calls that do not fit together at most one returns True), and
\* used_mb is exactly what the callers hold.
C3_TryAllocAtomic ==
    /\ SumHeld(Callers) <= TotalMb
    /\ used_mb = SumHeld(Callers)
    /\ \A c \in Callers : mm_pc[c] = "ta_add" =>
          used_mb + mm_amt[c] <= TotalMb

\* Two overlapping calls, each of which fits alone but not together with the
\* other: one is about to return True, the other has entered try_alloc.
C3_Witness ==
    \E c, d \in Callers :
        /\ c # d
        /\ mm_pc[c] = "ta_add"
        /\ mm_pc[d] = "ta_enter"
        /\ Fits(used_mb, mm_amt[d])
        /\ used_mb + mm_amt[c] + mm_amt[d] > TotalMb

\* ---------------------------------------------------------------- C6
Oversize(o) == o \in Objs /\ procs[o].mem_mb > TotalMb
NeverAdmitted(o) ==
    /\ ThreadsOf(o) = {}
    /\ o \notin RunningObjs
    /\ procs[o].state = "WAITING"
    /\ procs[o].t_start = 0
    /\ ~(pc \in {"remove", "setrun", "register", "launch"} /\ p = o)

\* C6 as stated: when run() has returned, every workload whose mem_mb
\* exceeds total_mb is in the terminal state DISCARDED.
C6_OversizeEndsDiscarded ==
    pc = "done" => \A o \in Objs : Oversize(o) => procs[o].state = "DISCARDED"

\* C6 amended: a workload whose mem_mb exceeds total_mb is never admitted,
\* and once run() is under way it is eventually removed from the queue for
\* good; its state field stays WAITING.
C6_OversizeRemovedNeverAdmitted ==
    /\ [](\A o \in Objs : Oversize(o) => NeverAdmitted(o))
    /\ \A o \in 1 .. FairProcs :
          Oversize(o) ~> [](Oversize(o) /\ o \notin QueuedObjs /\ procs[o].state = "WAITING")

\* An oversize workload queued behind a running one has been dropped.
C6_Witness ==
    \E o \in Objs :
        /\ Oversize(o)
        /\ o \notin QueuedObjs
        /\ o > 1
        /\ \E t \in Threads : thr[t].pc = "sleep"

\* ---------------------------------------------------------------- C7
\* C7: once run() is called on a finite list of workloads that all fit in
\* total_mb, run() eventually returns.
C7_RunReturns ==
    (pc # "intake" /\ \A o \in Objs : procs[o].mem_mb <= TotalMb) ~> RunReturned

\* run() has returned after a workload had to wait for memory.
C7_Witness ==
    /\ pc = "done"
    /\ Len(thr) >= 2
    /\ \A o \in Objs : procs[o].mem_mb <= TotalMb
    /\ SumMem(Objs) > TotalMb

\* ---------------------------------------------------------------- C8
\* C8: run() has returned only if the queue and the running dict are empty.
C8_ReturnsOnlyWhenDrained ==
    RunReturned => (Len(queue) = 0 /\ DOMAIN running = {})

\* run() has returned after workloads were queued and run.
C8_Witness == pc = "done" /\ Len(procs) >= 2 /\ Len(thr) >= 2

\* ---------------------------------------------------------------- C9
\* C9 (its last clause): an identifier generated by add_process differs from
\* every identifier already given to a workload, because the counter has been
\* moved past the identifiers supplied by callers.
C9_AutoPidIsFresh ==
    [][(next_pid' = next_pid + 1) =>
          \A o \in Objs : procs[o].pid # procs'[Len(procs')].pid]_vars

\* ---------------------------------------------------------------- C10
RECURSIVE SumThreadMem(_)
SumThreadMem(S) == IF S = {} THEN 0
                   ELSE LET t == CHOOSE x \in S : TRUE
                        IN  procs[thr[t].obj].mem_mb + SumThreadMem(S \ {t})

\* memory reserved for a workload whose thread has not been started yet
PendingReservation ==
    IF pc \in {"remove", "setrun", "register", "launch"} THEN procs[p].mem_mb ELSE 0

\* C10: what a finished workload releases is what was reserved for it:
\* used_mb is at every instant the memory of the admissions that have not
\* released yet, and each free lowers used_mb by exactly the workload's mem_mb.
C10_Conservation ==
    /\ [](used_mb = PendingReservation
                    + SumThreadMem({t \in Threads : thr[t].pc \in {"sleep", "free"}}))
    /\ [][\A t \in Threads :
            (thr[t].pc = "free" /\ thr'[t].pc = "pop") =>
                used_mb' = used_mb - procs[thr[t].obj].mem_mb]_vars

\* A workload has released its memory while another one still holds some.
C10_Witness ==
    \E t, u \in Threads :
        /\ thr[t].pc \in {"pop", "end"}
        /\ procs[thr[t].obj].mem_mb > 0
        /\ thr[u].pc = "sleep"
        /\ used_mb = procs[thr[u].obj].mem_mb
        /\ used_mb > 0

\* ---------------------------------------------------------------- C11
\* C11: an admitted execution always runs to completion: when the process
\* has ended, no started thread has been left before it finished its
\* workload, released the memory and removed the entry from the running dict.
C11_AdmittedRunsToCompletion ==
    pc = "exited" => \A t \in Threads : thr[t].pc = "end"

\* ---------------------------------------------------------------- C12
\* C12: whenever the scheduler lock is free, every workload in state RUNNING
\* has an entry in the running dict, under its pid and mapping to itself.
C12_RunningIsTracked ==
    LockFree =>
        \A o \in Objs : procs[o].state = "RUNNING" =>
            /\ procs[o].pid \in DOMAIN running
            /\ running[procs[o].pid] = o

\* ---------------------------------------------------------------- C13
\* memory has been reserved for o and not released yet
Holding(o) ==
    \/ \E t \in ThreadsOf(o) : thr[t].pc \in {"sleep", "free"}
    \/ pc \in {"remove", "setrun", "register", "launch"} /\ p = o

\* C13 as stated: every workload in the running dict is RUNNING and still
\* holds its memory, so the memory of the workloads in the running dict
\* never sums to more than used_mb.
C13_RunningMirrorsHolding ==
    /\ \A o \in RunningObjs : procs[o].state = "RUNNING" /\ Holding(o)
    /\ SumMem(RunningObjs) <= used_mb

\* C13 amended: every entry of the running dict is filed under the pid of
\* its workload, the workload has been admitted (RUNNING or FINISHED, never
\* WAITING), and as long as it is RUNNING its memory is reserved in the
\* ledger; a FINISHED workload stays listed after its memory was released.
C13_RunningSetAdmitted ==
    \A k \in DOMAIN running :
        /\ procs[running[k]].pid = k
        /\ procs[running[k]].state \in {"RUNNING", "FINISHED"}
        /\ procs[running[k]].state = "RUNNING" =>
              (Holding(running[k]) /\ used_mb >= procs[running[k]].mem_mb)

\* A workload is still listed although it is FINISHED and has released its
\* memory, next to one that is RUNNING and holds memory.
C13_Witness ==
    \E k, m \in DOMAIN running :
        /\ procs[running[k]].state = "FINISHED"
        /\ ~Holding(running[k])
        /\ procs[running[k]].mem_mb > 0
        /\ procs[running[m]].state = "RUNNING"
        /\ procs[running[m]].mem_mb > 0

\* ---------------------------------------------------------------- C14
\* C14: the state of a workload only changes WAITING -> RUNNING,
\* RUNNING -> FINISHED or WAITING -> DISCARDED.
C14_StateMachine ==
    [][\A o \in Objs :
          procs'[o].state # procs[o].state =>
              <<procs[o].state, procs'[o].state>> \in
                  {<<"WAITING", "RUNNING">>, <<"RUNNING", "FINISHED">>,
                   <<"WAITING", "DISCARDED">>}]_vars

\* ---------------------------------------------------------------- C15
\* C15: in one admission pass the queued workloads are fetched in queue
\* order, each once, and a failed reservation neither removes the workload
\* nor stops the pass: the workloads fetched so far are a prefix of the queue
\* the pass started with, the pass ends only when all of it has been
\* fetched, and the failing step leaves the queue as it is.
C15_PassOrder ==
    /\ [](/\ Len(tried) <= Len(pass_queue)
          /\ tried = SubSeq(pass_queue, 1, Len(tried))
          /\ pc \in {"check", "pass", "done", "exited"} => tried = pass_queue)
    /\ [][(pc = "test" /\ pc' = "while" /\ procs[p].mem_mb <= TotalMb) =>
             queue' = queue]_vars

\* A smaller workload has been admitted in the pass in which a larger one,
\* queued before it, failed and still waits.
C15_Witness ==
    /\ pc = "launch"
    /\ \E k \in 1 .. Len(queue) :
          /\ k <= i
          /\ queue[k] < p
          /\ procs[queue[k]].state = "WAITING"
          /\ procs[queue[k]].mem_mb > procs[p].mem_mb
          /\ \E m \in 1 .. Len(tried) : tried[m] = queue[k]

\* ---------------------------------------------------------------- C16
\* C16: the queue holds only WAITING workloads, in insertion order.
C16_QueueWaitingInOrder ==
    /\ \A k \in 1 .. Len(queue) : procs[queue[k]].state = "WAITING"
    /\ \A k \in 1 .. Len(queue) : \A m \in 1 .. Len(queue) :
          k < m => queue[k] < queue[m]

\* ---------------------------------------------------------------- C17
\* C17: a try_alloc call returns True exactly when used + amount <= total at
\* its return, and then used has grown by amount; it returns False otherwise
\* and leaves used as it was; no step of the call touches the queue, the
\* running dict or any other scheduler state.
C17_TryAllocEffect ==
    [][\A c \in Callers :
          /\ (mm_pc[c] = "ta_add" /\ mm_pc'[c] = "idle") =>
                (used_mb + mm_amt[c] <= TotalMb /\ used_mb' = used_mb + mm_amt[c])
          /\ (mm_pc[c] = "ta_false" /\ mm_pc'[c] = "idle") =>
                (used_mb + mm_amt[c] > TotalMb /\ used_mb' = used_mb)
          /\ (mm_pc[c] \in {"ta_enter", "ta_test", "ta_add", "ta_false"}
                /\ mm_pc'[c] # mm_pc[c]) => UNCHANGED schedVars]_vars

\* A call that would fit alone is about to return False because another
\* caller holds memory; the refused caller holds memory from an earlier call.
C17_Witness ==
    \E c, d \in Callers :
        /\ c # d
        /\ mm_pc[c] = "ta_false"
        /\ mm_amt[c] <= TotalMb
        /\ held[c] > 0
        /\ held[d] > 0

\* ---------------------------------------------------------------- C18
\* C18: whenever a finishing workload is about to call free(mem_mb), used_mb
\* is at least mem_mb, so the floor at 0 of free is never reached.
C18_FloorNeverReached ==
    \A t \in Threads : thr[t].pc = "free" => used_mb >= procs[thr[t].obj].mem_mb

\* A workload is about to release exactly what is left in the ledger, after
\* another workload has released its share.
C18_Witness ==
    \E t, u \in Threads :
        /\ thr[t].pc = "free"
        /\ procs[thr[t].obj].mem_mb > 0
        /\ used_mb = procs[thr[t].obj].mem_mb
        /\ thr[u].pc \in {"pop", "end"}
        /\ procs[thr[u].obj].mem_mb > 0

\* ---------------------------------------------------------------- C19
\* C19: when run() has returned, used_mb is 0, no workload is RUNNING, no
\* started thread is still executing and every workload is FINISHED or was
\* discarded as oversize.
C19_DrainedAtReturn ==
    pc = "done" =>
        /\ used_mb = 0
        /\ \A t \in Threads : thr[t].pc = "end"
        /\ \A o \in Objs :
              \/ procs[o].state = "FINISHED"
              \/ procs[o].state = "WAITING" /\ procs[o].mem_mb > TotalMb

\* ---------------------------------------------------------------- C20
\* C20: once the admission pass has removed an element from the queue for
\* the workload it examined, that workload is no longer queued.
C20_RemovesExaminedWorkload ==
    pc \in {"setrun", "register", "launch"} => p \notin QueuedObjs

====
